---- MODULE Spec2Model ----
(***************************************************************************)
(* The calculator of src/script.js: the expression buffer, the history     *)
(* list, the result line of the display, and the tokenize -> toPostfix ->  *)
(* evalPostfix pipeline.                                                   *)
(*                                                                         *)
(* A string is a sequence of one-character strings.  A Number is a record  *)
(* [kind, n, d]: the exact rational n/d (d > 0, lowest terms), NaN, or the *)
(* value undefined that Array.pop gives on an empty array.  The binary     *)
(* rounding error of IEEE-754 doubles (the 17th significant digit) is not  *)
(* modelled: arithmetic is exact.                                          *)
(***************************************************************************)
EXTENDS Integers, Sequences, FiniteSets, TLC

VARIABLES expression, history, resultNode, nextId, keys, last

vars == <<expression, history, resultNode, nextId, keys, last>>

(***************************************************************************)
(* Bounds of the model.                                                    *)
(***************************************************************************)
\* Input events handled in one explored session.
MaxKeys == 5
\* Digits of the widest number token the model evaluates.
MaxDigits == 8
\* Successful equals commands in one history run (SpecHistory).
MaxCommits == 22
\* Operands of the widest expression SpecEval starts from.
MaxOperands == 3
\* Characters of the longest string SpecTokens starts from.
MaxLen == 5

\* history.slice(0, 20)
HistoryCap == 20
\* Math.round(... * 1e12) / 1e12: decimal places kept by toResultString.
ResultPlaces == 12

(***************************************************************************)
(* Characters.                                                             *)
(***************************************************************************)
operators == {"+", "-", "*", "/"}

DigitChars == {"0", "1", "2", "3", "4", "5", "6", "7", "8", "9"}

\* /\d/.test(c) for a one-character string
IsDigit(c) == c \in DigitChars

\* /\d|\./.test(c) for a one-character string
IsNumChar(c) == c \in DigitChars \/ c = "."

DigitVal(c) ==
  CASE c = "0" -> 0 [] c = "1" -> 1 [] c = "2" -> 2 [] c = "3" -> 3
    [] c = "4" -> 4 [] c = "5" -> 5 [] c = "6" -> 6 [] c = "7" -> 7
    [] c = "8" -> 8 [] c = "9" -> 9

DigitChar(v) ==
  CASE v = 0 -> "0" [] v = 1 -> "1" [] v = 2 -> "2" [] v = 3 -> "3"
    [] v = 4 -> "4" [] v = 5 -> "5" [] v = 6 -> "6" [] v = 7 -> "7"
    [] v = 8 -> "8" [] v = 9 -> "9"

\* String.prototype.slice(0, -1)
DropLast(s) == IF s = <<>> THEN <<>> ELSE SubSeq(s, 1, Len(s) - 1)

\* String.prototype.at(-1), "" standing for undefined
LastChar(s) == IF s = <<>> THEN "" ELSE s[Len(s)]

(***************************************************************************)
(* tokenize                                                                *)
(***************************************************************************)
\* A token is a string; an operator token is one operator character.
IsOpToken(t) == Len(t) = 1 /\ t[1] \in operators

\* unaryMinus without the operators.has(prev) alternative
unaryMinusLeadingOnly(raw, i) ==
  /\ raw[i] = "-"
  /\ i = 1
  /\ i + 1 <= Len(raw)
  /\ IsNumChar(raw[i + 1])

\* const unaryMinus = char === '-' && (i === 0 || operators.has(prev))
\*                    && /\d|\./.test(raw[i + 1])
unaryMinus(raw, i) ==
  /\ raw[i] = "-"
  /\ (i = 1 \/ raw[i - 1] \in operators)
  /\ i + 1 <= Len(raw)
  /\ IsNumChar(raw[i + 1])

RECURSIVE TokenizeFrom(_, _, _, _)
TokenizeFrom(raw, i, tokens, numberBuffer) ==
  IF i > Len(raw)
  THEN IF numberBuffer # <<>> THEN Append(tokens, numberBuffer) ELSE tokens
  ELSE IF IsNumChar(raw[i]) \/ unaryMinus(raw, i)
       THEN TokenizeFrom(raw, i + 1, tokens, Append(numberBuffer, raw[i]))
       ELSE IF raw[i] \in operators
            THEN TokenizeFrom(raw, i + 1,
                   Append(IF numberBuffer # <<>>
                          THEN Append(tokens, numberBuffer) ELSE tokens,
                          <<raw[i]>>),
                   <<>>)
            ELSE TokenizeFrom(raw, i + 1, tokens, numberBuffer)

\* tokenize without the push after the loop: a trailing number is lost
tokenizeNoFlush(raw) ==
  LET tokens == TokenizeFrom(raw, 1, <<>>, <<>>)
  IN IF tokens # <<>> /\ ~IsOpToken(tokens[Len(tokens)])
     THEN DropLast(tokens) ELSE tokens

tokenize(raw) == TokenizeFrom(raw, 1, <<>>, <<>>)

(***************************************************************************)
(* toPostfix                                                               *)
(***************************************************************************)
\* precedence with one level for all four operators
precedenceFlat(op) == 1

precedence(op) == IF op \in {"*", "/"} THEN 2 ELSE 1

\* The while loop of one operator token: <<output, stack>> after the pops.
RECURSIVE PopWhile(_, _, _)
PopWhile(output, stack, token) ==
  IF stack # <<>> /\ precedence(stack[Len(stack)][1]) >= precedence(token[1])
  THEN PopWhile(Append(output, stack[Len(stack)]), DropLast(stack), token)
  ELSE <<output, stack>>

\* toPostfix without the final while loop
DrainNothing(output, stack) == output

\* The final while loop: the stack popped to the output, top first.
RECURSIVE Drain(_, _)
Drain(output, stack) ==
  IF stack = <<>> THEN output
  ELSE Drain(Append(output, stack[Len(stack)]), DropLast(stack))

RECURSIVE PostfixFrom(_, _, _, _)
PostfixFrom(tokens, i, output, stack) ==
  IF i > Len(tokens) THEN Drain(output, stack)
  ELSE IF ~IsOpToken(tokens[i])
       THEN PostfixFrom(tokens, i + 1, Append(output, tokens[i]), stack)
       ELSE LET p == PopWhile(output, stack, tokens[i])
            IN PostfixFrom(tokens, i + 1, p[1], Append(p[2], tokens[i]))

toPostfix(tokens) == PostfixFrom(tokens, 1, <<>>, <<>>)

(***************************************************************************)
(* Numbers.                                                                *)
(***************************************************************************)
NaN == [kind |-> "NaN", n |-> 0, d |-> 1]

\* What Array.prototype.pop returns on an empty array.
Undefined == [kind |-> "undefined", n |-> 0, d |-> 1]

Abs(x) == IF x < 0 THEN -x ELSE x

RECURSIVE Gcd(_, _)
Gcd(a, b) == IF b = 0 THEN a ELSE Gcd(b, a % b)

\* The rational n/d, d # 0, in lowest terms with a positive denominator.
Num(n, d) ==
  LET g == Gcd(Abs(n), Abs(d))
      s == IF d < 0 THEN -1 ELSE 1
  IN [kind |-> "num", n |-> s * (n \div g), d |-> s * (d \div g)]

RECURSIVE Pow10(_)
Pow10(k) == IF k = 0 THEN 1 ELSE 10 * Pow10(k - 1)

\* Number.isFinite
IsFinite(v) == v.kind = "num"

(***************************************************************************)
(* Number.parseFloat on a token: an optional '-', digits, at most one '.'  *)
(* and digits; the longest such prefix is the value, NaN when it holds no  *)
(* digit.                                                                  *)
(***************************************************************************)
RECURSIVE ParseFrom(_, _, _, _, _, _)
ParseFrom(t, i, mant, scale, seenDot, seenDigit) ==
  IF i <= Len(t) /\ IsDigit(t[i])
  THEN ParseFrom(t, i + 1, 10 * mant + DigitVal(t[i]),
                 IF seenDot THEN scale + 1 ELSE scale, seenDot, TRUE)
  ELSE IF i <= Len(t) /\ t[i] = "." /\ ~seenDot
       THEN ParseFrom(t, i + 1, mant, scale, TRUE, seenDigit)
       ELSE [mant |-> mant, scale |-> scale, ok |-> seenDigit]

parseFloat(t) ==
  LET neg == t # <<>> /\ t[1] = "-"
      p == ParseFrom(t, IF neg THEN 2 ELSE 1, 0, 0, FALSE, FALSE)
  IN IF ~p.ok THEN NaN
     ELSE Num(IF neg THEN -p.mant ELSE p.mant, Pow10(p.scale))

(***************************************************************************)
(* evalPostfix                                                             *)
(***************************************************************************)
\* ApplyOperator without the b === 0 test of '/': the quotient taken as 0
ApplyOperatorNoZeroTest(op, a, b) ==
  IF a.kind # "num" \/ b.kind # "num" THEN NaN
  ELSE CASE op = "+" -> Num(a.n * b.d + b.n * a.d, a.d * b.d)
         [] op = "-" -> Num(a.n * b.d - b.n * a.d, a.d * b.d)
         [] op = "*" -> Num(a.n * b.n, a.d * b.d)
         [] op = "/" -> IF b.n = 0 THEN Num(0, 1) ELSE Num(a.n * b.d, a.d * b.n)
         [] OTHER -> NaN

\* The body of the forEach callback for an operator token, b popped first.
ApplyOperator(op, a, b) ==
  IF a.kind = "NaN" \/ b.kind = "NaN" THEN NaN
  ELSE IF a.kind = "undefined" \/ b.kind = "undefined" THEN NaN
  ELSE CASE op = "+" -> Num(a.n * b.d + b.n * a.d, a.d * b.d)
         [] op = "-" -> Num(a.n * b.d - b.n * a.d, a.d * b.d)
         [] op = "*" -> Num(a.n * b.n, a.d * b.d)
         [] op = "/" -> IF b.n = 0 THEN NaN ELSE Num(a.n * b.d, a.d * b.n)
         [] OTHER -> NaN

\* stack.pop(): <<value, rest>>
Pop(stack) ==
  IF stack = <<>> THEN <<Undefined, <<>>>>
  ELSE <<stack[Len(stack)], DropLast(stack)>>

RECURSIVE EvalFrom(_, _, _)
EvalFrom(postfix, i, stack) ==
  IF i > Len(postfix)
  THEN IF stack = <<>> THEN Undefined ELSE stack[1]
  ELSE IF ~IsOpToken(postfix[i])
       THEN EvalFrom(postfix, i + 1, Append(stack, parseFloat(postfix[i])))
       ELSE LET pb == Pop(stack)
                pa == Pop(pb[2])
            IN EvalFrom(postfix, i + 1,
                 Append(pa[2], ApplyOperator(postfix[i][1], pa[1], pb[1])))

evalPostfix(postfix) == EvalFrom(postfix, 1, <<>>)

evaluateExpression(raw) ==
  LET tokens == tokenize(raw)
  IN IF tokens = <<>> THEN Num(0, 1) ELSE evalPostfix(toPostfix(tokens))

(***************************************************************************)
(* String(number) and toResultString.                                      *)
(***************************************************************************)
ErrorString == <<"E", "r", "r", "o", "r">>

RECURSIVE IntDigits(_)
IntDigits(m) ==
  IF m < 10 THEN <<DigitChar(m)>>
  ELSE Append(IntDigits(m \div 10), DigitChar(m % 10))

\* The first k decimal digits of r/d (0 <= r < d) and the remainder left.
RECURSIVE FracDigits(_, _, _, _)
FracDigits(r, d, k, acc) ==
  IF k = 0 \/ r = 0 THEN [digits |-> acc, rem |-> r]
  ELSE FracDigits((10 * r) % d, d, k - 1, Append(acc, (10 * r) \div d))

RECURSIVE StripZeros(_)
StripZeros(ds) ==
  IF ds # <<>> /\ ds[Len(ds)] = 0 THEN StripZeros(DropLast(ds)) ELSE ds

RECURSIVE LeadingZeros(_)
LeadingZeros(ds) ==
  IF ds # <<>> /\ ds[1] = 0 THEN 1 + LeadingZeros(Tail(ds)) ELSE 0

\* A digit sequence plus one in its last place: <<digits, carry out>>.
RECURSIVE Increment(_)
Increment(ds) ==
  IF ds = <<>> THEN <<<<>>, 1>>
  ELSE IF ds[Len(ds)] < 9
       THEN <<[ds EXCEPT ![Len(ds)] = @ + 1], 0>>
       ELSE LET rest == Increment(DropLast(ds))
            IN <<Append(rest[1], 0), rest[2]>>

DigitString(ds) == [i \in 1..Len(ds) |-> DigitChar(ds[i])]

(***************************************************************************)
(* Number::toString of the decimal (-1)^neg * (ip + 0.frac): fixed         *)
(* notation from 1e-6 up, exponent notation below; zero prints "0".        *)
(***************************************************************************)
FormatDecimal(neg, ip, frac) ==
  LET f == StripZeros(frac)
      z == LeadingZeros(f)
      sig == SubSeq(f, z + 1, Len(f))
      sgn == IF neg THEN <<"-">> ELSE <<>>
  IN IF ip = 0 /\ f = <<>> THEN <<"0">>
     ELSE IF ip = 0 /\ z >= 6
          THEN sgn \o <<DigitChar(sig[1])>>
                   \o (IF Len(sig) > 1
                       THEN <<".">> \o DigitString(Tail(sig)) ELSE <<>>)
                   \o <<"e", "-">> \o IntDigits(z + 1)
          ELSE sgn \o IntDigits(ip)
                   \o (IF f # <<>> THEN <<".">> \o DigitString(f) ELSE <<>>)

\* All decimal digits of r/d (0 <= r < d), d a divisor of a power of ten.
RECURSIVE ExactDigits(_, _, _)
ExactDigits(r, d, acc) ==
  IF r = 0 THEN acc
  ELSE ExactDigits((10 * r) % d, d, Append(acc, (10 * r) \div d))

\* String(v) for a finite v with a terminating decimal expansion.
NumberToString(v) ==
  LET a == Abs(v.n)
  IN FormatDecimal(v.n < 0, a \div v.d, ExactDigits(a % v.d, v.d, <<>>))

(***************************************************************************)
(* toResultString: Math.round((value + Number.EPSILON) * 1e12) / 1e12,     *)
(* then String.  Math.round rounds a half towards +Infinity; the EPSILON   *)
(* term is below the resolution of the twelve places and is not modelled.  *)
(***************************************************************************)
toResultString(value) ==
  IF ~IsFinite(value) THEN ErrorString
  ELSE LET neg == value.n < 0
           a == Abs(value.n)
           fd == FracDigits(a % value.d, value.d, ResultPlaces, <<>>)
           pad == fd.digits \o [i \in 1..(ResultPlaces - Len(fd.digits)) |-> 0]
           nx == FracDigits(fd.rem, value.d, 1, <<>>)
           d13 == IF nx.digits = <<>> THEN 0 ELSE nx.digits[1]
           up == IF neg THEN d13 > 5 \/ (d13 = 5 /\ nx.rem # 0) ELSE d13 >= 5
           inc == Increment(pad)
       IN IF up THEN FormatDecimal(neg, (a \div value.d) + inc[2], inc[1])
          ELSE FormatDecimal(neg, a \div value.d, pad)

(***************************************************************************)
(* normalizeInput                                                          *)
(***************************************************************************)
\* expression.split(/[+\-*/]/) and its last element: the text after the
\* last operator character.
RECURSIVE LastSegment(_)
LastSegment(s) ==
  IF s = <<>> \/ s[Len(s)] \in operators THEN <<>>
  ELSE Append(LastSegment(DropLast(s)), s[Len(s)])

Includes(s, c) == \E i \in 1..Len(s) : s[i] = c

\* /\d/.test(s): some character of s is a digit
HasDigit(s) == \E i \in 1..Len(s) : IsDigit(s[i])

\* normalizeInput without the replacement branch: operators stack
normalizeInputStacking(expr, newChar) ==
  IF HasDigit(newChar) THEN expr \o newChar
  ELSE IF newChar = <<".">>
       THEN IF ~Includes(LastSegment(expr), ".")
            THEN expr \o (IF LastSegment(expr) # <<>> THEN <<".">> ELSE <<"0", ".">>)
            ELSE expr
       ELSE IF IsOpToken(newChar)
            THEN IF expr = <<>>
                 THEN (IF newChar = <<"-">> THEN <<"-">> ELSE expr)
                 ELSE expr \o newChar
            ELSE expr

\* normalizeInput keeping the first operator: the replacement drops one
\* character more than it should
normalizeInputShort(expr, newChar) ==
  IF HasDigit(newChar) THEN expr \o newChar
  ELSE IF newChar = <<".">>
       THEN IF ~Includes(LastSegment(expr), ".")
            THEN expr \o (IF LastSegment(expr) # <<>> THEN <<".">> ELSE <<"0", ".">>)
            ELSE expr
       ELSE IF IsOpToken(newChar)
            THEN IF expr = <<>>
                 THEN (IF newChar = <<"-">> THEN <<"-">> ELSE expr)
                 ELSE IF LastChar(expr) \in operators
                      THEN DropLast(DropLast(expr)) \o newChar
                      ELSE expr \o newChar
            ELSE expr

\* newChar is the string of the button's data-value or of event.key.
normalizeInput(expr, newChar) ==
  IF HasDigit(newChar) THEN expr \o newChar
  ELSE IF newChar = <<".">>
       THEN LET current == LastSegment(expr)
            IN IF ~Includes(current, ".")
               THEN expr \o (IF current # <<>> THEN <<".">> ELSE <<"0", ".">>)
               ELSE expr
       ELSE IF IsOpToken(newChar)
            THEN IF expr = <<>>
                 THEN (IF newChar = <<"-">> THEN <<"-">> ELSE expr)
                 ELSE IF LastChar(expr) \in operators
                      THEN DropLast(expr) \o newChar
                      ELSE expr \o newChar
            ELSE expr

(***************************************************************************)
(* expression.match(/-?\d*\.?\d+$/): the leftmost suffix that is an        *)
(* optional '-', digits, an optional '.', and at least one final digit.    *)
(***************************************************************************)
\* \d*\.?\d+ matches all of s
IsUnsignedNumber(s) ==
  /\ s # <<>>
  /\ \A i \in 1..Len(s) : IsNumChar(s[i])
  /\ Cardinality({i \in 1..Len(s) : s[i] = "."}) <= 1
  /\ IsDigit(s[Len(s)])

SuffixMatches(s, i) ==
  LET suf == SubSeq(s, i, Len(s))
  IN \/ IsUnsignedNumber(suf)
     \/ suf[1] = "-" /\ IsUnsignedNumber(Tail(suf))

MatchStarts(s) == {i \in 1..Len(s) : SuffixMatches(s, i)}

Min(S) == CHOOSE x \in S : \A y \in S : x <= y

\* parts[0] of the match; called only when MatchStarts(s) is not empty
TrailingNumber(s) == SubSeq(s, Min(MatchStarts(s)), Len(s))

(***************************************************************************)
(* handleAction, one operator per case, on the expression string.          *)
(***************************************************************************)
\* expression.slice(0, -current.length)
SliceOff(expr, current) == SubSeq(expr, 1, Len(expr) - Len(current))

\* percent keeping the quotient alone: the text before the number is lost
PercentOfBuffer(expr) ==
  IF expr = <<>> \/ LastChar(expr) \in operators THEN expr
  ELSE IF MatchStarts(expr) = {} THEN expr
       ELSE NumberToString(ApplyOperator("/", parseFloat(TrailingNumber(expr)),
                                         Num(100, 1)))

\* case 'percent'
Percent(expr) ==
  IF expr = <<>> \/ LastChar(expr) \in operators THEN expr
  ELSE IF MatchStarts(expr) = {} THEN expr
       ELSE LET current == TrailingNumber(expr)
                percentValue ==
                  NumberToString(ApplyOperator("/", parseFloat(current), Num(100, 1)))
            IN SliceOff(expr, current) \o percentValue

\* case 'sign'
Sign(expr) ==
  IF MatchStarts(expr) = {}
  THEN IF expr # <<>> /\ expr[1] = "-" THEN Tail(expr) ELSE <<"-">> \o expr
  ELSE LET current == TrailingNumber(expr)
           toggled == IF current[1] = "-" THEN Tail(current)
                      ELSE <<"-">> \o current
       IN SliceOff(expr, current) \o toggled

\* the early return of equals taken on the empty expression only
EqualsIgnoredEmptyOnly(expr) == expr = <<>>

\* case 'equals': the guard of the early return
EqualsIgnored(expr) == expr = <<>> \/ LastChar(expr) \in operators

\* const answer = toResultString(evaluateExpression(expression))
Answer(expr) == toResultString(evaluateExpression(expr))

\* history.push(entry) in place of history.unshift(entry)
RecordAtEnd(hist, entry) ==
  LET h == Append(hist, entry)
  IN SubSeq(h, 1, IF Len(h) < HistoryCap THEN Len(h) ELSE HistoryCap)

\* history.unshift(entry); history = history.slice(0, 20)
Record(hist, entry) ==
  LET h == <<entry>> \o hist
  IN SubSeq(h, 1, IF Len(h) < HistoryCap THEN Len(h) ELSE HistoryCap)

\* an entry that stores the answer as its expression
EntryOfAnswer(expr, answer, id) ==
  [expression |-> answer, result |-> answer, id |-> id]

\* The entry pushed by a successful equals; crypto.randomUUID() is modelled
\* as the next value of a counter, which no earlier entry holds.
Entry(expr, answer, id) == [expression |-> expr, result |-> answer, id |-> id]

\* case 'equals': the expression, the history and the id counter afterwards
EqualsExpression(expr) ==
  IF EqualsIgnored(expr) THEN expr
  ELSE IF Answer(expr) # ErrorString THEN Answer(expr) ELSE <<>>

\* equals recording the entry whatever the answer is
EqualsHistoryAlways(expr, hist, id) ==
  IF EqualsIgnored(expr) THEN hist
  ELSE Record(hist, Entry(expr, Answer(expr), id + 1))

EqualsHistory(expr, hist, id) ==
  IF EqualsIgnored(expr) \/ Answer(expr) = ErrorString THEN hist
  ELSE Record(hist, Entry(expr, Answer(expr), id + 1))

EqualsNextId(expr, id) ==
  IF EqualsIgnored(expr) \/ Answer(expr) = ErrorString THEN id ELSE id + 1

(***************************************************************************)
(* What the model evaluates: number tokens of at most MaxDigits digits.    *)
(* An event whose handler would evaluate a wider number is left out.       *)
(***************************************************************************)
DigitCount(t) == Cardinality({i \in 1..Len(t) : IsDigit(t[i])})

Narrow(raw) ==
  LET tokens == tokenize(raw)
  IN \A i \in 1..Len(tokens) : DigitCount(tokens[i]) <= MaxDigits

(***************************************************************************)
(* updateDisplay(preview): the text it leaves in resultNode.               *)
(***************************************************************************)
\* The one-character string U+2026, the horizontal ellipsis.
Ellipsis == <<"...">>

\* updateDisplay that previews whatever its argument is
updateDisplayAlways(expr, preview) ==
  IF expr = <<>> THEN <<"0">>
  ELSE IF LastChar(expr) \in operators \/ LastChar(expr) = "." THEN Ellipsis
       ELSE toResultString(evaluateExpression(expr))

updateDisplay(expr, preview) ==
  IF expr = <<>> THEN <<"0">>
  ELSE IF ~preview \/ LastChar(expr) \in operators \/ LastChar(expr) = "."
       THEN Ellipsis
       ELSE toResultString(evaluateExpression(expr))

\* case 'percent': resultNode afterwards; both early returns leave it alone
PercentDisplay(expr, shown) ==
  IF expr = <<>> \/ LastChar(expr) \in operators \/ MatchStarts(expr) = {}
  THEN shown
  ELSE updateDisplay(Percent(expr), TRUE)

\* case 'sign': updateDisplay(false) on the fallback, updateDisplay() otherwise
SignDisplay(expr) == updateDisplay(Sign(expr), MatchStarts(expr) # {})

\* case 'equals': resultNode afterwards; the early return leaves it alone
EqualsDisplay(expr, shown) ==
  IF EqualsIgnored(expr) THEN shown
  ELSE updateDisplay(EqualsExpression(expr), FALSE)

(***************************************************************************)
(* The state machine.  last is the event handled last: its name, its       *)
(* argument, and the expression it found.  keys counts the events handled. *)
(***************************************************************************)
\* The digits on the keys the model presses.
KeypadDigits == {"0", "5"}

KeypadValues == KeypadDigits \cup {"."} \cup operators

\* renderHistory(); updateDisplay(false) on the empty expression
Init ==
  /\ expression = <<>>
  /\ history = <<>>
  /\ resultNode = updateDisplay(<<>>, FALSE)
  /\ nextId = 0
  /\ keys = 0
  /\ last = [event |-> "init", arg |-> <<>>, before |-> <<>>]

Handled(event, arg, expr, hist, id, shown) ==
  /\ expression' = expr
  /\ history' = hist
  /\ nextId' = id
  /\ resultNode' = shown
  /\ last' = [event |-> event, arg |-> arg, before |-> expression]

\* One more event of the session.
Counted == keys < MaxKeys /\ keys' = keys + 1

\* normalizeInput(value); updateDisplay()
InputValue(value) ==
  /\ Narrow(normalizeInput(expression, value))
  /\ Handled("value", value, normalizeInput(expression, value), history,
             nextId, updateDisplay(normalizeInput(expression, value), TRUE))

HandleClear ==
  Handled("clear", <<>>, <<>>, history, nextId, updateDisplay(<<>>, FALSE))

\* delete with slice(0, -2): two characters go
HandleDeleteTwo ==
  Handled("delete", <<>>, DropLast(DropLast(expression)), history, nextId,
          updateDisplay(DropLast(DropLast(expression)), FALSE))

HandleDelete ==
  Handled("delete", <<>>, DropLast(expression), history, nextId,
          updateDisplay(DropLast(expression), FALSE))

HandleEquals ==
  /\ Narrow(expression)
  /\ Handled("equals", <<>>, EqualsExpression(expression),
             EqualsHistory(expression, history, nextId),
             EqualsNextId(expression, nextId),
             EqualsDisplay(expression, resultNode))

\* keypad click on a button with data-value
KeypadValue == Counted /\ \E c \in KeypadValues : InputValue(<<c>>)

ActionClear == Counted /\ HandleClear

ActionDelete == Counted /\ HandleDelete

ActionPercent ==
  /\ Counted
  /\ Narrow(expression)
  /\ Narrow(Percent(expression))
  /\ Handled("percent", <<>>, Percent(expression), history, nextId,
             PercentDisplay(expression, resultNode))

ActionSign ==
  /\ Counted
  /\ Narrow(Sign(expression))
  /\ Handled("sign", <<>>, Sign(expression), history, nextId,
             SignDisplay(expression))

ActionEquals == Counted /\ HandleEquals

\* click on the clear-history button
ClearHistory ==
  /\ Counted
  /\ Handled("clearHistory", <<>>, expression, <<>>, nextId, resultNode)

\* click on a history item
HistoryClick ==
  /\ Counted
  /\ \E i \in 1..Len(history) :
       Handled("historyClick", <<>>, history[i].result, history, nextId,
               updateDisplay(history[i].result, FALSE))

(***************************************************************************)
(* The keydown listener.  A key is the string event.key.                   *)
(***************************************************************************)
KeyF5 == <<"F", "5">>
KeyEnter == <<"E", "n", "t", "e", "r">>
KeyBackspace == <<"B", "a", "c", "k", "s", "p", "a", "c", "e">>
KeyDelete == <<"D", "e", "l", "e", "t", "e">>

\* The keys the model presses.
KeydownKeys ==
  { <<c>> : c \in KeypadValues }
    \cup { KeyF5, KeyEnter, <<"=">>, KeyBackspace, KeyDelete,
           <<"c">>, <<"C">>, <<"a">> }

\* /\d|[+\-*/.]/.test(event.key): some character of the key matches
IsInputKey(key) ==
  \E i \in 1..Len(key) : IsNumChar(key[i]) \/ key[i] \in operators

\* event.key.toLowerCase() on the keys of KeydownKeys
ToLowerCase(key) ==
  [i \in 1..Len(key) |->
     CASE key[i] = "B" -> "b" [] key[i] = "C" -> "c" [] key[i] = "D" -> "d"
       [] key[i] = "E" -> "e" [] key[i] = "F" -> "f" [] OTHER -> key[i]]

\* A key none of the four tests takes changes nothing.
Keydown ==
  /\ keys < MaxKeys
  /\ \E key \in KeydownKeys :
       IF IsInputKey(key) THEN keys' = keys + 1 /\ InputValue(key)
       ELSE IF key = KeyEnter \/ key = <<"=">>
            THEN keys' = keys + 1 /\ HandleEquals
       ELSE IF key = KeyBackspace THEN keys' = keys + 1 /\ HandleDelete
       ELSE IF key = KeyDelete \/ ToLowerCase(key) = <<"c">>
            THEN keys' = keys + 1 /\ HandleClear
       ELSE UNCHANGED vars

Next ==
  \/ KeypadValue
  \/ ActionClear
  \/ ActionDelete
  \/ ActionPercent
  \/ ActionSign
  \/ ActionEquals
  \/ ClearHistory
  \/ HistoryClick
  \/ Keydown

Spec == Init /\ [][Next]_vars

(***************************************************************************)
(* SpecHistory: runs of equals commands from buffers the keypad can hold,  *)
(* long enough to fill the history list past its cap.                      *)
(***************************************************************************)
HistoryStarts ==
  { <<"5">>, <<"5", "+", "5">>, <<"0", ".", "5">>, <<"5", "*", "5">>,
    <<"5", "-", "5", "0">>, <<"-", "5">>, <<"5", "0">>, <<"5", "/", "0">>,
    <<"5", "+">>,
    <<"0", ".", "0", "0", "0", "5", "*", "0", ".", "0", "0", "0", "5">> }

InitHistory ==
  /\ expression \in HistoryStarts
  /\ history = <<>>
  /\ resultNode = updateDisplay(expression, TRUE)
  /\ nextId = 0
  /\ keys = 0
  /\ last = [event |-> "init", arg |-> <<>>, before |-> <<>>]

EqualsRun ==
  /\ nextId < MaxCommits
  /\ UNCHANGED keys
  /\ HandleEquals

NextHistory == EqualsRun

SpecHistory == InitHistory /\ [][NextHistory]_vars

(***************************************************************************)
(* SpecEval: equals applied to every expression of at most MaxOperands     *)
(* operands joined by operators.                                           *)
(***************************************************************************)
EvalOperands ==
  { <<"0">>, <<"2">>, <<"3">>, <<"4">>, <<"-", "0", ".", "5">> }

RECURSIVE ExprsOf(_)
ExprsOf(k) ==
  IF k = 1 THEN EvalOperands
  ELSE { e \o <<op>> \o x : e \in ExprsOf(k - 1), op \in operators,
                            x \in EvalOperands }

InitEval ==
  /\ expression \in UNION { ExprsOf(k) : k \in 1..MaxOperands }
  /\ history = <<>>
  /\ resultNode = updateDisplay(expression, TRUE)
  /\ nextId = 0
  /\ keys = 0
  /\ last = [event |-> "init", arg |-> <<>>, before |-> <<>>]

NextEval == ActionEquals

SpecEval == InitEval /\ [][NextEval]_vars

(***************************************************************************)
(* SpecTokens: equals, as the last event of a session, applied to every    *)
(* string of at most MaxLen characters over digits, '.', and operators.    *)
(***************************************************************************)
TokenChars == {"2", "5", "."} \cup operators

RECURSIVE StringsOf(_)
StringsOf(n) ==
  IF n = 0 THEN {<<>>}
  ELSE { Append(x, c) : x \in StringsOf(n - 1), c \in TokenChars }

InitTokens ==
  /\ expression \in UNION { StringsOf(n) : n \in 0..MaxLen }
  /\ history = <<>>
  /\ resultNode = updateDisplay(expression, TRUE)
  /\ nextId = 0
  /\ keys = MaxKeys - 1
  /\ last = [event |-> "init", arg |-> <<>>, before |-> <<>>]

NextTokens == ActionEquals

SpecTokens == InitTokens /\ [][NextTokens]_vars

(***************************************************************************)
(* Properties.                                                             *)
(***************************************************************************)
Str5p5 == <<"5", "+", "5">>

NoConsecutiveOperators(s) ==
  \A i \in 1..(Len(s) - 1) : ~(s[i] \in operators /\ s[i + 1] \in operators)

\* Two decimal points are in one numeric segment when only digits and
\* decimal points stand between them.
OneDotPerSegment(s) ==
  \A i \in 1..Len(s) : \A j \in (i + 1)..Len(s) :
    (s[i] = "." /\ s[j] = ".") =>
      \E k \in (i + 1)..(j - 1) : ~IsNumChar(s[k])

\* C1 as stated: no reachable expression holds two consecutive operator
\* characters.
C1_NoConsecutiveOperators == NoConsecutiveOperators(expression)

\* C1 amended: no event other than the sign command creates a pair of
\* consecutive operators; an expression without such a pair has none after
\* a digit, '.', operator, clear, delete, percent, equals or history event.
C1_OnlySignStacksOperators ==
  (last.event # "sign" /\ NoConsecutiveOperators(last.before))
    => NoConsecutiveOperators(expression)

\* Percent has put a number that begins with '-' behind a digit.
C1_Witness ==
  /\ last.event = "percent"
  /\ last.before = <<"5", "-", "5">>
  /\ expression = <<"5", "-", "0", ".", "0", "5">>

\* C2: every numeric segment of the expression holds at most one '.'.
C2_OneDotPerSegment == OneDotPerSegment(expression)

\* C3: in a run of equals commands the history holds the min(n, 20) most
\* recent of the n entries committed, newest first: entry i carries the id
\* of the i-th most recent commit.
C3_HistoryNewestFirst ==
  /\ Len(history) <= HistoryCap
  /\ Len(history) = (IF nextId < HistoryCap THEN nextId ELSE HistoryCap)
  /\ \A i \in 1..Len(history) : history[i].id = nextId - i + 1
  /\ (last.event = "equals" /\ history # <<>>)
       => history[1].expression = last.before

\* More than 20 equals have succeeded and the first entry, of 5+5, is gone.
C3_Witness ==
  /\ nextId > HistoryCap
  /\ Len(history) = HistoryCap
  /\ history[HistoryCap].id = nextId - HistoryCap + 1
  /\ \A i \in 1..Len(history) : history[i].expression = <<"1", "0">>

\* C4: after equals on an expression with a non-error answer, entry 0 of
\* the history holds that expression and the answer, and the expression is
\* the answer.
C4_EqualsRecordsExpression ==
  (/\ last.event = "equals"
   /\ ~EqualsIgnored(last.before)
   /\ Answer(last.before) # ErrorString)
    => /\ history # <<>>
       /\ history[1].expression = last.before
       /\ history[1].result = Answer(last.before)
       /\ expression = history[1].result

C4_Witness ==
  /\ last.event = "equals"
  /\ last.before = Str5p5
  /\ expression = <<"1", "0">>
  /\ history[1].expression = Str5p5
  /\ history[1].result = <<"1", "0">>

\* C5: every equals event on an expression whose answer is "Error" empties
\* the expression and leaves the history as it was, and no history entry
\* has the result "Error".
C5_ErrorNotRecorded ==
  /\ [](\A i \in 1..Len(history) : history[i].result # ErrorString)
  /\ [][(/\ last'.event = "equals"
         /\ keys' # keys
         /\ ~EqualsIgnored(expression)
         /\ Answer(expression) = ErrorString)
          => (expression' = <<>> /\ history' = history)]_vars

C5_Witness ==
  /\ last.event = "equals"
  /\ last.before = <<"5", "/", "0">>
  /\ expression = <<>>
  /\ history = <<>>

\* C6: sign applied twice gives back the expression.
C6_SignInvolution == Sign(Sign(expression)) = expression

(***************************************************************************)
(* The reference evaluator: exact arithmetic on numbers joined by binary   *)
(* operators, '*' and '/' binding tighter than '+' and '-', equal          *)
(* precedence grouped from the left.                                       *)
(***************************************************************************)
IsWellFormed(t) ==
  /\ Len(t) % 2 = 1
  /\ \A i \in 1..Len(t) : IsOpToken(t[i]) <=> (i % 2 = 0)

\* The last position of an operator of ops in t, 0 when there is none.
LastOperator(t, ops) ==
  LET S == {i \in 1..Len(t) : IsOpToken(t[i]) /\ t[i][1] \in ops}
  IN IF S = {} THEN 0 ELSE CHOOSE i \in S : \A j \in S : j <= i

RefArith(op, a, b) ==
  IF ~IsFinite(a) \/ ~IsFinite(b) THEN NaN
  ELSE IF op = "+" THEN Num(a.n * b.d + b.n * a.d, a.d * b.d)
  ELSE IF op = "-" THEN Num(a.n * b.d - b.n * a.d, a.d * b.d)
  ELSE IF op = "*" THEN Num(a.n * b.n, a.d * b.d)
  ELSE IF b.n = 0 THEN NaN ELSE Num(a.n * b.d, a.d * b.n)

RECURSIVE RefTerm(_)
RefTerm(t) ==
  LET i == LastOperator(t, {"*", "/"})
  IN IF i = 0 THEN parseFloat(t[1])
     ELSE RefArith(t[i][1], RefTerm(SubSeq(t, 1, i - 1)), parseFloat(t[i + 1]))

RECURSIVE RefValue(_)
RefValue(t) ==
  LET i == LastOperator(t, {"+", "-"})
  IN IF i = 0 THEN RefTerm(t)
     ELSE RefArith(t[i][1], RefValue(SubSeq(t, 1, i - 1)),
                   RefTerm(SubSeq(t, i + 1, Len(t))))

\* C7: on numbers joined by binary operators evaluateExpression gives the
\* value of the reference evaluator, and equals leaves its formatted value
\* in the expression.
C7_PrecedenceRespected ==
  /\ (Narrow(expression) /\ IsWellFormed(tokenize(expression)))
       => evaluateExpression(expression) = RefValue(tokenize(expression))
  /\ (/\ last.event = "equals"
      /\ IsWellFormed(tokenize(last.before))
      /\ IsFinite(RefValue(tokenize(last.before))))
       => expression = toResultString(RefValue(tokenize(last.before)))

C7_Witness ==
  /\ last.event = "equals"
  /\ last.before = <<"2", "+", "3", "*", "4">>
  /\ expression = <<"1", "4">>

\* Some '/' of t has a right operand whose value is zero.
HasZeroDivision(t) ==
  \E i \in 1..(Len(t) - 1) :
    /\ t[i] = <<"/">>
    /\ ~IsOpToken(t[i + 1])
    /\ parseFloat(t[i + 1]) = Num(0, 1)

\* C8: an expression with a division by zero formats to "Error", whatever
\* operators follow the division, and equals empties the expression.
C8_DivisionByZeroIsError ==
  /\ (Narrow(expression) /\ HasZeroDivision(tokenize(expression)))
       => Answer(expression) = ErrorString
  /\ (/\ last.event = "equals"
      /\ ~EqualsIgnored(last.before)
      /\ HasZeroDivision(tokenize(last.before)))
       => expression = <<>>

C8_Witness ==
  /\ last.event = "equals"
  /\ last.before = <<"2", "/", "0", "*", "3">>
  /\ expression = <<>>

\* C9: an operator key on an expression that ends in an operator replaces
\* that last character and nothing else.
C9_OperatorReplaces ==
  (/\ last.event = "value"
   /\ IsOpToken(last.arg)
   /\ last.before # <<>>
   /\ LastChar(last.before) \in operators)
    => /\ Len(expression) = Len(last.before)
       /\ DropLast(expression) = DropLast(last.before)
       /\ <<LastChar(expression)>> = last.arg

C9_Witness ==
  /\ last.event = "value"
  /\ last.arg = <<"*">>
  /\ last.before = <<"5", "+">>
  /\ expression = <<"5", "*">>

\* C10: equals on an expression that is empty or ends in an operator
\* changes neither the expression nor the history, and commits nothing.
C10_EqualsIgnored ==
  [][(/\ last'.event = "equals"
      /\ (expression = <<>> \/ LastChar(expression) \in operators))
       => (expression' = expression /\ history' = history
           /\ nextId' = nextId)]_vars

C10_Witness ==
  /\ last.event = "equals"
  /\ last.before = <<"5", "+">>
  /\ expression = <<"5", "+">>
  /\ history = <<>>

\* An optional '-', then digits with at most one '.' among them.
IsSignedNumeral(s) ==
  LET u == IF s # <<>> /\ s[1] = "-" THEN Tail(s) ELSE s
  IN /\ HasDigit(u)
     /\ \A i \in 1..Len(u) : IsNumChar(u[i])
     /\ Cardinality({i \in 1..Len(u) : u[i] = "."}) <= 1

\* The decimal string of the value of the numeral seg divided by 100.
Hundredth(seg) ==
  LET v == parseFloat(seg) IN NumberToString(Num(v.n, v.d * 100))

\* C11 as stated: percent leaves an expression that is empty or ends in an
\* operator; on every other expression it replaces a trailing numeral by
\* its value divided by 100 and keeps the text before it.
C11_PercentDividesSegment ==
  last.event = "percent" =>
    IF last.before = <<>> \/ LastChar(last.before) \in operators
    THEN expression = last.before
    ELSE \E k \in 1..Len(last.before) :
           /\ IsSignedNumeral(SubSeq(last.before, k, Len(last.before)))
           /\ expression = SubSeq(last.before, 1, k - 1)
                              \o Hundredth(SubSeq(last.before, k, Len(last.before)))

\* C11 amended: percent leaves an expression that is empty or whose last
\* character is not a digit (an operator, or a '.'); on an expression that
\* ends in a digit it replaces the longest trailing numeral by its value
\* divided by 100 and keeps the text before it.
C11_PercentDividesMatch ==
  last.event = "percent" =>
    IF last.before = <<>> \/ ~IsDigit(LastChar(last.before))
    THEN expression = last.before
    ELSE LET b == last.before
             k == Min({j \in 1..Len(b) : IsSignedNumeral(SubSeq(b, j, Len(b)))})
         IN expression = SubSeq(b, 1, k - 1) \o Hundredth(SubSeq(b, k, Len(b)))

C11_Witness ==
  /\ last.event = "percent"
  /\ last.before = <<"5", "0">>
  /\ expression = <<"0", ".", "5">>

\* What the preview of expression s is said to show.
PreviewOf(s) ==
  IF s = <<>> THEN <<"0">>
  ELSE IF LastChar(s) \in operators \/ LastChar(s) = "." THEN Ellipsis
       ELSE toResultString(evaluateExpression(s))

\* C12 as stated: after every event the result line shows "0" for the
\* empty expression, the ellipsis exactly when the expression ends in an
\* operator or '.', and the formatted value otherwise.
C12_PreviewShown ==
  (last.event # "init" /\ Narrow(expression))
    => resultNode = PreviewOf(expression)

\* The event handled last ended in updateDisplay() with the preview on.
PreviewOn ==
  \/ last.event = "value"
  \/ /\ last.event \in {"percent", "sign"}
     /\ last.before # <<>>
     /\ IsDigit(LastChar(last.before))

\* The event handled last ended in updateDisplay(false).
PreviewOff ==
  \/ last.event \in {"clear", "delete", "historyClick"}
  \/ /\ last.event = "equals"
     /\ last.before # <<>>
     /\ LastChar(last.before) \notin operators
  \/ /\ last.event = "sign"
     /\ (last.before = <<>> \/ ~IsDigit(LastChar(last.before)))

\* C12 amended: after an input character, and after percent or sign on an
\* expression that ends in a digit, the result line shows the preview of
\* the expression; after clear, delete, an equals that is not ignored, a
\* history click, and sign on an expression that does not end in a digit,
\* it shows "0" for the empty expression and the ellipsis for every other;
\* an ignored percent or equals and clearHistory leave it as it was.
C12_PreviewAfterInput ==
  /\ [](/\ PreviewOn => resultNode = PreviewOf(expression)
        /\ PreviewOff =>
             resultNode = (IF expression = <<>> THEN <<"0">> ELSE Ellipsis))
  /\ [][(/\ keys' # keys
         /\ \/ last'.event = "clearHistory"
            \/ /\ last'.event = "percent"
               /\ (expression = <<>> \/ ~IsDigit(LastChar(expression)))
            \/ /\ last'.event = "equals"
               /\ (expression = <<>> \/ LastChar(expression) \in operators))
          => resultNode' = resultNode]_vars

C12_Witness ==
  /\ last.event = "value"
  /\ last.before = <<"5", "+">>
  /\ expression = Str5p5
  /\ resultNode = <<"1", "0">>

\* Every character of s is a digit, '.', or an operator.
InAlphabet(s) ==
  \A i \in 1..Len(s) : IsNumChar(s[i]) \/ s[i] \in operators

\* C13: every character of the expression is a digit, '.', or an operator.
C13_BufferAlphabet == InAlphabet(expression)

\* C14: sign on an expression that ends in a number leaves the tokens
\* before the last number as they were and negates the last number.
C14_SignTogglesLastNumber ==
  (/\ last.event = "sign"
   /\ InAlphabet(last.before)
   /\ last.before # <<>>
   /\ IsDigit(LastChar(last.before)))
    => LET tb == tokenize(last.before)
           ta == tokenize(expression)
           b == parseFloat(tb[Len(tb)])
       IN /\ Len(ta) = Len(tb)
          /\ DropLast(ta) = DropLast(tb)
          /\ parseFloat(ta[Len(ta)]) = Num(-b.n, b.d)

\* The position in raw of the first character of token j, the tokens laid
\* end to end from position 1.
RECURSIVE TokenStart(_, _)
TokenStart(tokens, j) ==
  IF j = 1 THEN 1 ELSE TokenStart(tokens, j - 1) + Len(tokens[j - 1])

\* The index of the token that covers position i of raw.
TokenIndexAt(raw, i) ==
  LET tokens == tokenize(raw)
  IN CHOOSE x \in 1..Len(tokens) :
       /\ TokenStart(tokens, x) <= i
       /\ i < TokenStart(tokens, x) + Len(tokens[x])

\* The '-' at position i is first or follows an operator, and a digit or
\* '.' follows it.
SignPosition(raw, i) ==
  /\ i = 1 \/ raw[i - 1] \in operators
  /\ i < Len(raw)
  /\ IsNumChar(raw[i + 1])

MinusTokensRight(raw) ==
  \A i \in 1..Len(raw) :
    raw[i] = "-" =>
      LET tokens == tokenize(raw)
          j == TokenIndexAt(raw, i)
      IN IF SignPosition(raw, i)
         THEN Len(tokens[j]) > 1 /\ TokenStart(tokens, j) = i
         ELSE tokens[j] = <<"-">>

\* C15: a '-' begins a number token exactly when it is first or follows an
\* operator and a digit or '.' follows it; every other '-' is an operator
\* token.  Checked on the expression equals found and on the one it left.
C15_UnaryMinus ==
  /\ InAlphabet(expression) => MinusTokensRight(expression)
  /\ InAlphabet(last.before) => MinusTokensRight(last.before)

C15_Witness ==
  /\ last.event = "equals"
  /\ last.before = <<"-", "5", "+", "2">>
  /\ tokenize(last.before) = << <<"-", "5">>, <<"+">>, <<"2">> >>
  /\ expression = <<"-", "3">>

\* The number of places of sequence t that hold x.
Count(t, x) == Cardinality({i \in 1..Len(t) : t[i] = x})

IsNumberToken(t) == ~IsOpToken(t)

SameTokens(t, p) ==
  /\ Len(p) = Len(t)
  /\ \A i \in 1..Len(t) : Count(p, t[i]) = Count(t, t[i])
  /\ SelectSeq(p, IsNumberToken) = SelectSeq(t, IsNumberToken)

\* C16: toPostfix gives a sequence of the same length with the same tokens,
\* the number tokens in their order.  Checked on the tokens of the
\* expression equals found and of the one it left.
C16_PostfixKeepsTokens ==
  /\ SameTokens(tokenize(expression), toPostfix(tokenize(expression)))
  /\ SameTokens(tokenize(last.before), toPostfix(tokenize(last.before)))

C16_Witness ==
  /\ last.event = "equals"
  /\ last.before = <<"2", "+", "5", "*", "2">>
  /\ toPostfix(tokenize(last.before))
       = << <<"2">>, <<"5">>, <<"2">>, <<"*">>, <<"+">> >>
  /\ expression = <<"1", "2">>

\* C17: input characters, clear, delete, percent and sign leave the
\* history; the history changes only by an equals that puts one entry, of
\* the expression it found, in front, or by clearHistory, which empties it;
\* clear empties the expression and delete removes its last character.
C17_HistoryFrame ==
  [][/\ last'.event \in {"value", "clear", "delete", "percent", "sign"}
          => history' = history
     /\ history' # history
          => \/ last'.event = "clearHistory" /\ history' = <<>>
             \/ /\ last'.event = "equals"
                /\ Len(history') = (IF Len(history) < HistoryCap
                                    THEN Len(history) + 1 ELSE HistoryCap)
                /\ history'[1].expression = expression
                /\ \A i \in 2..Len(history') : history'[i] = history[i - 1]
     /\ last'.event = "clear" => expression' = <<>>
     /\ last'.event = "delete"
          => IF expression = <<>> THEN expression' = <<>>
             ELSE expression' = SubSeq(expression, 1, Len(expression) - 1)
    ]_vars

\* delete has removed the last character behind an entry of the history.
C17_Witness ==
  /\ last.event = "delete"
  /\ last.before = <<"1", "0">>
  /\ expression = <<"1">>
  /\ Len(history) = 1
  /\ history[1].expression = Str5p5

\* C18: the first character of the expression is never '+', '*' or '/'.
C18_LeadingOperatorOnlyMinus ==
  expression # <<>> => expression[1] \notin {"+", "*", "/"}

\* C19: the expression a successful equals leaves is one number token, and
\* equals on it leaves it as it is.
C19_EqualsIdempotent ==
  (/\ last.event = "equals"
   /\ last.before # <<>>
   /\ LastChar(last.before) \notin operators
   /\ expression # <<>>
   /\ Narrow(expression))
    => /\ Len(tokenize(expression)) = 1
       /\ EqualsExpression(expression) = expression

\* The tokens of a sequence laid end to end.
RECURSIVE Concat(_)
Concat(tokens) ==
  IF tokens = <<>> THEN <<>> ELSE tokens[1] \o Concat(Tail(tokens))

\* C20: the tokens of a string of digits, '.' and operators, laid end to
\* end, are the string.  Checked on the expression equals found and on the
\* one it left.
C20_TokensSpellInput ==
  /\ InAlphabet(expression) => Concat(tokenize(expression)) = expression
  /\ InAlphabet(last.before) => Concat(tokenize(last.before)) = last.before

C20_Witness ==
  /\ last.event = "equals"
  /\ last.before = <<"2", "*", "-", ".", "5">>
  /\ tokenize(last.before) = << <<"2">>, <<"*">>, <<"-", ".", "5">> >>
  /\ expression = <<"-", "1">>

====
